---------------------------- MODULE Spec2Model ----------------------------
(***************************************************************************)
(* A model of src/app.py, the Variational Omni dashboard: one Streamlit    *)
(* script that fetches the stats payload, joins it with the cached supply  *)
(* table, derives FDV and its ratios per listing and renders five sorted   *)
(* views.                                                                  *)
(*                                                                         *)
(* Numbers are exact rationals [n, d] (d > 0, lowest terms); the value     *)
(* with d = 0 is NaN.  Strings that the code transforms (tickers, numeric  *)
(* text, formatted output) are sequences of one-character strings.  JSON   *)
(* objects are functions from key to tagged value, so that dict.get and    *)
(* dict truthiness are what they are in Python.                            *)
(***************************************************************************)
EXTENDS Integers, Sequences, FiniteSets, TLC

VARIABLES
    source,        \* the supply CSV on disk (SUPPLY_FILE)
    cache,         \* st.cache_data's entry for load_supply_data
    tie_order,     \* how this build's quicksort orders equal keys
    pc,            \* "running": a script run is due; "idle": the page is shown
    button,        \* st.button("Refresh Data") in the current run
    resp,          \* what requests.get met in the current run
    fetch_calls,   \* requests.get calls made by the current run
    supply_reads,  \* pd.read_csv calls made by the current run
    errors,        \* st.error messages of the current run
    data,          \* main's local `data`
    timestamp,     \* main's local `timestamp`
    supply_map,    \* main's local `supply_map`
    headers,       \* the st.header sections drawn by the current run
    metrics,       \* the four st.metric tiles
    all_data,      \* the derived rows
    top_fdv_vol, top_fdv_oi, top_funding, df_display, df_analysis,
    outcome,       \* how the run ended
    fmt_in,        \* format_fdv's argument (formatter specification)
    fmt_out        \* format_fdv's result, <<>> before the call

run_vars  == <<pc, button, resp, fetch_calls, supply_reads, errors, data,
               timestamp, supply_map, headers, metrics, all_data, top_fdv_vol,
               top_fdv_oi, top_funding, df_display, df_analysis, outcome>>
env_vars  == <<source, cache, tie_order>>
fmt_vars  == <<fmt_in, fmt_out>>
vars      == <<env_vars, run_vars, fmt_vars>>

---------------------------------------------------------------------------
(* Bounds of the model.                                                    *)

\* Longest hand-picked prefix of a payload's listings.
MaxListings == 2
\* Number of generated listings that may follow the prefix.
BulkLen == 10
\* Largest decimal exponent of a format_fdv argument.
MaxExp == 13

(* Program constants.                                                      *)
TopN == 10
HoursPerDay == 24
DaysPerYear == 365

None == [t |-> "None"]

---------------------------------------------------------------------------
(* Python floats as exact rationals.                                       *)

Abs(i) == IF i < 0 THEN -i ELSE i

RECURSIVE GCD(_, _)
GCD(a, b) == IF b = 0 THEN a ELSE GCD(b, a % b)

Q(n, d) ==
    LET g == GCD(Abs(n), Abs(d))
        s == IF d < 0 THEN -1 ELSE 1
    IN  IF d = 0 THEN [n |-> 0, d |-> 0]
        ELSE [n |-> s * (n \div g), d |-> s * (d \div g)]

Zero == Q(0, 1)
NaN  == Q(0, 0)

isna(a)   == a.d = 0
Mul(a, b) == IF isna(a) \/ isna(b) THEN NaN ELSE Q(a.n * b.n, a.d * b.d)
Add(a, b) == IF isna(a) \/ isna(b) THEN NaN
             ELSE Q(a.n * b.d + b.n * a.d, a.d * b.d)
\* a / b for b # 0 (Python raises on b = 0; every call site guards it)
Div(a, b) == IF isna(a) \/ isna(b) THEN NaN ELSE Q(a.n * b.d, a.d * b.n)
\* comparisons with NaN are False, as in IEEE 754
Lt(a, b)  == ~isna(a) /\ ~isna(b) /\ a.n * b.d < b.n * a.d
Gt(a, b)  == Lt(b, a)
Le(a, b)  == ~isna(a) /\ ~isna(b) /\ a.n * b.d <= b.n * a.d
Ge(a, b)  == Le(b, a)
AbsQ(a)   == IF isna(a) THEN NaN ELSE Q(Abs(a.n), a.d)
\* Python truthiness of a float: 0.0 is falsy, everything else (NaN too) truthy
Truthy(a) == isna(a) \/ a.n # 0

---------------------------------------------------------------------------
(* Strings as sequences of characters.                                     *)

\* a function on 1..n as the list of its values
AsList(f) == f \o <<>>

Whitespace == {" "}
DigitChars == <<"0", "1", "2", "3", "4", "5", "6", "7", "8", "9">>

RECURSIVE lstrip(_)
lstrip(s) == IF s # <<>> /\ Head(s) \in Whitespace THEN lstrip(Tail(s)) ELSE s

RECURSIVE rstrip(_)
rstrip(s) == IF s # <<>> /\ s[Len(s)] \in Whitespace
             THEN rstrip(SubSeq(s, 1, Len(s) - 1)) ELSE s

strip_identity(s) == s
\* str.strip()
strip(s) == rstrip(lstrip(s))

upper_char(c) == CASE c = "a" -> "A" [] c = "b" -> "B" [] c = "n" -> "N"
                   [] c = "x" -> "X" [] OTHER -> c
\* str.upper()
upper(s) == AsList([i \in 1..Len(s) |-> upper_char(s[i])])

DigitValue(c) == (CHOOSE i \in 1..10 : DigitChars[i] = c) - 1
IsDigit(c)    == \E i \in 1..10 : DigitChars[i] = c

RECURSIVE DigitsToInt(_)
DigitsToInt(s) == IF s = <<>> THEN 0
                  ELSE 10 * DigitsToInt(SubSeq(s, 1, Len(s) - 1))
                       + DigitValue(s[Len(s)])

RECURSIVE IntToDigits(_)
\* the decimal digits of n >= 0
IntToDigits(n) == IF n < 10 THEN <<DigitChars[n + 1]>>
                  ELSE Append(IntToDigits(n \div 10), DigitChars[(n % 10) + 1])

RECURSIVE Grouped(_)
\* the "," option of the format mini-language: groups of three from the right
Grouped(ds) == IF Len(ds) <= 3 THEN ds
               ELSE Grouped(SubSeq(ds, 1, Len(ds) - 3)) \o <<",">>
                    \o SubSeq(ds, Len(ds) - 2, Len(ds))

\* round(N / D) for N >= 0, D > 0, ties to the even neighbour: what "%.1f" and
\* "%.0f" do when the scaled value is exactly representable
RoundHalfEven(N, D) ==
    LET q == N \div D
        r == N % D
    IN  IF 2 * r < D THEN q
        ELSE IF 2 * r > D THEN q + 1
        ELSE IF q % 2 = 0 THEN q ELSE q + 1

---------------------------------------------------------------------------
(* format_fdv.  Its argument is a float given as m * 10^e, m a rational of *)
(* small numerator and denominator: 10^12 is beyond the checker's          *)
(* integers, so the magnitude is carried by the exponent.                  *)

ExpT == 12
ExpB == 9
ExpM == 6

RECURSIVE Pow10(_)
Pow10(k) == IF k = 0 THEN 1 ELSE 10 * Pow10(k - 1)

Sci(m, e) == [m |-> m, e |-> e]

\* val >= 10^k, for a positive val = (n/d) * 10^e with n, d < 10^6
GePow10(val, k) ==
    LET n == val.m.n
        d == val.m.d
        a == val.e - k
    IN  IF a >= 0
        THEN IF a >= 6 THEN n >= 1
             ELSE n >= (d + Pow10(a) - 1) \div Pow10(a)
        ELSE IF -a >= 6 THEN FALSE
             ELSE n \div Pow10(-a) >= d

\* f"{val / 10^k:.1f}" as the number of tenths shown
Tenths(val, k) ==
    LET s == val.e - k + 1
    IN  IF s >= 0 THEN RoundHalfEven(val.m.n * Pow10(s), val.m.d)
        ELSE RoundHalfEven(val.m.n, val.m.d * Pow10(-s))

\* the digits of ".1f" (grouped by "," when asked) for a count of tenths
OneDecimal(t, commas) ==
    (IF commas THEN Grouped(IntToDigits(t \div 10)) ELSE IntToDigits(t \div 10))
    \o <<".", DigitChars[(t % 10) + 1]>>

format_fdv_zero_shown(val) ==
    IF isna(val.m) \/ val.m.n < 0 THEN <<"-">>
    ELSE IF GePow10(val, ExpT)
         THEN <<"$">> \o OneDecimal(Tenths(val, ExpT), FALSE) \o <<"T">>
    ELSE IF GePow10(val, ExpB)
         THEN <<"$">> \o OneDecimal(Tenths(val, ExpB), FALSE) \o <<"B">>
    ELSE IF GePow10(val, ExpM)
         THEN <<"$">> \o OneDecimal(Tenths(val, ExpM), FALSE) \o <<"M">>
    ELSE <<"$">> \o OneDecimal(Tenths(val, 0), TRUE)

format_fdv(val) ==
    IF isna(val.m) \/ val.m.n <= 0 THEN <<"-">>
    ELSE IF GePow10(val, ExpT)
         THEN <<"$">> \o OneDecimal(Tenths(val, ExpT), FALSE) \o <<"T">>
    ELSE IF GePow10(val, ExpB)
         THEN <<"$">> \o OneDecimal(Tenths(val, ExpB), FALSE) \o <<"B">>
    ELSE IF GePow10(val, ExpM)
         THEN <<"$">> \o OneDecimal(Tenths(val, ExpM), FALSE) \o <<"M">>
    ELSE <<"$">> \o OneDecimal(Tenths(val, 0), TRUE)

\* f"${float(v):,.0f}", the format of a metric tile
format_metric(q) ==
    IF q.n < 0
    THEN <<"$", "-">> \o Grouped(IntToDigits(RoundHalfEven(-q.n, q.d)))
    ELSE <<"$">> \o Grouped(IntToDigits(RoundHalfEven(q.n, q.d)))

---------------------------------------------------------------------------
(* JSON values and Python's float() and dict.get on them.                  *)

Null    == [t |-> "null"]
Num(i)  == [t |-> "num", v |-> i]
Str(s)  == [t |-> "str", v |-> s]
Obj(o)  == [t |-> "obj", v |-> o]
List(l) == [t |-> "list", v |-> l]
EmptyDict == <<>>

\* d.get(key, default) on a dict d
get(d, key, default) == IF key \in DOMAIN d THEN d[key] ELSE default

IsNumeral(s) ==
    /\ s # <<>>
    /\ LET body == IF Head(s) = "-" THEN Tail(s) ELSE s
       IN  body # <<>> /\ \A i \in 1..Len(body) : IsDigit(body[i])

ParseNumeral(s) == IF Head(s) = "-" THEN Q(-DigitsToInt(Tail(s)), 1)
                   ELSE Q(DigitsToInt(s), 1)

\* float(j): the value, or the exception raised
float(j) ==
    CASE j.t = "num" -> [exc |-> "", v |-> Q(j.v, 1)]
      [] j.t = "str" -> IF IsNumeral(strip(j.v))
                        THEN [exc |-> "", v |-> ParseNumeral(strip(j.v))]
                        ELSE [exc |-> "ValueError", v |-> NaN]
      [] OTHER       -> [exc |-> "TypeError", v |-> NaN]

---------------------------------------------------------------------------
(* The supply table: load_supply_data behind st.cache_data.                *)

\* pd.to_numeric(cell, errors='coerce') followed by fillna(0)
to_numeric_fillna(cell) ==
    IF IsNumeral(strip(cell)) THEN ParseNumeral(strip(cell)) ELSE Zero

RECURSIVE dict_zip(_)
\* dict(zip(df['Ticker'], df['Supply'])): a later row replaces an earlier one
dict_zip(rows) ==
    IF rows = <<>> THEN EmptyDict
    ELSE LET r == rows[Len(rows)]
         IN  (upper(strip(r.Ticker)) :> to_numeric_fillna(r.Supply))
             @@ dict_zip(SubSeq(rows, 1, Len(rows) - 1))

\* the body of load_supply_data: what a cache miss computes
read_supply(src) ==
    IF ~src.exists THEN EmptyDict
    ELSE IF ~src.has_columns THEN EmptyDict
    ELSE dict_zip(src.rows)

NoEntry == [hit |-> FALSE, value |-> EmptyDict]
Entry(m) == [hit |-> TRUE, value |-> m]

cache_kept(clicked, c) == c
\* `if st.button("Refresh Data"): st.cache_data.clear()`
cache_after_button(clicked, c) == IF clicked THEN NoEntry ELSE c

---------------------------------------------------------------------------
(* fetch_api_data.                                                         *)

raise_for_status_never(status) == FALSE
\* response.raise_for_status(): requests raises HTTPError for 4xx and 5xx
raise_for_status(status) == status >= 400 /\ status < 600

\* The outcome of one call: (data, timestamp), the st.error it showed, and
\* the number of requests.get calls it made.
fetch_api_data(r) ==
    IF \/ r.kind \in {"transport", "timeout"}
       \/ raise_for_status(r.status)
       \/ ~r.body.valid
    THEN [data |-> None, timestamp |-> "None", calls |-> 1,
          errors |-> <<"Error fetching data from API">>]
    ELSE [data |-> r.body.value, timestamp |-> "now", calls |-> 1,
          errors |-> <<>>]

\* `not data`: None and the empty dict are both falsy
not_data(d) == d = None \/ DOMAIN d = {}

---------------------------------------------------------------------------
(* The global metric tiles.                                                *)

MetricKeys == <<"total_volume_24h", "cumulative_volume", "tvl", "open_interest">>

RECURSIVE render_metrics(_, _)
\* the tiles st.metric has drawn, and the exception that stopped it, if any
render_metrics(d, k) ==
    IF k > Len(MetricKeys) THEN [exc |-> "", tiles |-> <<>>]
    ELSE LET f == float(get(d, MetricKeys[k], Num(0)))
         IN  IF f.exc # "" THEN [exc |-> f.exc, tiles |-> <<>>]
             ELSE LET rest == render_metrics(d, k + 1)
                  IN  [exc |-> rest.exc,
                       tiles |-> <<format_metric(f.v)>> \o rest.tiles]

---------------------------------------------------------------------------
(* The per-listing derivation (the loop body of main).                     *)

safe_div_nonzero(n, d) == IF Truthy(d) THEN Div(n, d) ELSE Zero
\* def safe_div(n, d): return n / d if d and d > 0 else 0
safe_div(n, d) == IF Truthy(d) /\ Gt(d, Zero) THEN Div(n, d) ELSE Zero

\* fdv = price * supply if supply > 0 else 0
fdv_of(price, supply) == IF Gt(supply, Zero) THEN Mul(price, supply) ELSE Zero

\* hourly_funding = raw_funding / 365 / 24
hourly_of(raw) == Div(Div(raw, Q(DaysPerYear, 1)), Q(HoursPerDay, 1))

FirstExc(excs) ==
    IF \A i \in 1..Len(excs) : excs[i] = "" THEN ""
    ELSE excs[CHOOSE i \in 1..Len(excs) :
                 excs[i] # "" /\ \A j \in 1..(i - 1) : excs[j] = ""]

Ok(q) == [exc |-> "", v |-> q]

\* One iteration: the row appended to all_data, or the exception raised.
\* `index` is the row's label in the DataFrame built from all_data.
derive(item, smap, index) ==
    LET tk      == get(item, "ticker", Str(<<>>))
        price   == float(get(item, "mark_price", Num(0)))
        vol     == float(get(item, "volume_24h", Num(0)))
        oi_data == get(item, "open_interest", Obj(EmptyDict))
        is_dict == oi_data.t = "obj"
        long    == IF is_dict
                   THEN float(get(oi_data.v, "long_open_interest", Num(0)))
                   ELSE Ok(Zero)
        short   == IF is_dict
                   THEN float(get(oi_data.v, "short_open_interest", Num(0)))
                   ELSE Ok(Zero)
        raw     == float(get(item, "funding_rate", Num(0)))
        spread  == float(get(item, "base_spread_bps", Num(0)))
        exc     == FirstExc(<<IF tk.t = "str" THEN "" ELSE "AttributeError",
                              price.exc, vol.exc, long.exc, short.exc,
                              raw.exc, spread.exc>>)
        ticker  == upper(strip(tk.v))
        supply  == get(smap, ticker, Zero)
        fdv     == fdv_of(price.v, supply)
        total   == Add(long.v, short.v)
    IN  IF exc # "" THEN [exc |-> exc, row |-> None]
        ELSE [exc |-> "",
              row |-> ("index" :> index)
                   @@ ("Ticker" :> ticker)
                   @@ ("Name" :> get(item, "name", None))
                   @@ ("Price" :> price.v)
                   @@ ("Volume 24h" :> vol.v)
                   @@ ("Hourly Funding Rate" :> hourly_of(raw.v))
                   @@ ("Base Spread (bps)" :> spread.v)
                   @@ ("Long OI" :> long.v)
                   @@ ("Short OI" :> short.v)
                   @@ ("FDV_Raw" :> fdv)
                   @@ ("FDV" :> format_fdv(Sci(fdv, 0)))
                   @@ ("FDV / Volume 24h" :> safe_div(fdv, vol.v))
                   @@ ("FDV / Total OI" :> safe_div(fdv, total))
                   @@ ("FDV / Long OI" :> safe_div(fdv, long.v))
                   @@ ("FDV / Short OI" :> safe_div(fdv, short.v))]

\* `for item in listings`: the rows appended before the loop ended or raised
derive_all(listings, smap) ==
    LET n     == Len(listings)
        excs  == AsList([i \in 1..n |-> derive(listings[i], smap, i - 1).exc])
        exc   == FirstExc(excs)
        stop  == IF exc = "" THEN n + 1
                 ELSE CHOOSE i \in 1..n :
                        excs[i] # "" /\ \A j \in 1..(i - 1) : excs[j] = ""
    IN  [exc  |-> exc,
         rows |-> AsList([i \in 1..(stop - 1) |->
                            derive(listings[i], smap, i - 1).row])]

---------------------------------------------------------------------------
(* The views.                                                              *)

TieOrders == {"input", "reversed"}

\* The rows of df placed by rank: rank[i] is the number of rows before row i.
Arrange(df, rank) ==
    AsList([p \in 1..Len(df) |-> df[CHOOSE i \in 1..Len(df) : rank[i] = p - 1]])

sort_ascending(df, by, order) ==
    LET precedes(j, i) == \/ Lt(df[j][by], df[i][by])
                          \/ df[i][by] = df[j][by] /\ j < i
    IN  Arrange(df, AsList([i \in 1..Len(df) |->
                     Cardinality({j \in 1..Len(df) : precedes(j, i)})]))

\* df.sort_values(by=by, ascending=False) with the default kind="quicksort",
\* which pandas documents as not stable: larger keys first, and rows of equal
\* key in an order the build decides (here: as they came, or reversed).
sort_values(df, by, order) ==
    LET precedes(j, i) == \/ Lt(df[i][by], df[j][by])
                          \/ /\ df[i][by] = df[j][by]
                             /\ IF order = "reversed" THEN j > i ELSE j < i
    IN  Arrange(df, AsList([i \in 1..Len(df) |->
                     Cardinality({j \in 1..Len(df) : precedes(j, i)})]))

\* df[mask]: the rows at the positions in `kept`, in their order
select(df, kept) ==
    AsList([p \in 1..Cardinality(kept) |->
              df[CHOOSE i \in kept : Cardinality({j \in kept : j < i}) = p - 1]])

volume_unfiltered(df) == df
\* df_master[df_master["Volume 24h"] > 0]
volume_positive(df) ==
    select(df, {i \in 1..Len(df) : Gt(df[i]["Volume 24h"], Zero)})

\* .head(10)
head(df) == SubSeq(df, 1, IF Len(df) < TopN THEN Len(df) ELSE TopN)

\* df_metrics["Abs Funding"] = df_metrics["Hourly Funding Rate"].abs()
with_abs_funding(df) ==
    AsList([i \in 1..Len(df) |->
              ("Abs Funding" :> AbsQ(df[i]["Hourly Funding Rate"])) @@ df[i]])

---------------------------------------------------------------------------
(* The inputs the model draws from.                                        *)

\* States of the supply CSV.
Missing   == [exists |-> FALSE, has_columns |-> FALSE, rows |-> <<>>]
NoColumns == [exists |-> TRUE, has_columns |-> FALSE, rows |-> <<>>]
SupplyA   == [exists |-> TRUE, has_columns |-> TRUE,
              rows |-> <<[Ticker |-> <<" ", "a", " ">>, Supply |-> <<"3">>],
                         [Ticker |-> <<"B">>, Supply |-> <<"n", "/", "a">>]>>]
SupplyB   == [exists |-> TRUE, has_columns |-> TRUE,
              rows |-> <<[Ticker |-> <<"A">>, Supply |-> <<"2">>],
                         [Ticker |-> <<"b">>, Supply |-> <<" ", "4">>],
                         [Ticker |-> <<"a">>, Supply |-> <<"5">>]>>]
Sources   == {Missing, NoColumns, SupplyA, SupplyB}

OI(long, short) == Obj(("long_open_interest" :> Num(long))
                       @@ ("short_open_interest" :> Num(short)))

Listing(ticker, price, vol, funding, oi) ==
    ("ticker" :> Str(ticker)) @@ ("name" :> Str(ticker))
    @@ ("mark_price" :> Num(price)) @@ ("volume_24h" :> Num(vol))
    @@ ("funding_rate" :> Num(funding)) @@ ("base_spread_bps" :> Num(1))
    @@ ("open_interest" :> oi)

\* well-formed listings, and listings with fields missing or of another shape
L1 == Listing(<<" ", "a">>, 2, 1, 3, OI(1, 1))
L2 == Listing(<<"B">>, 1, 1, -3, OI(2, -2))
L3 == ("ticker" :> Str(<<"A">>)) @@ ("mark_price" :> Num(5))
      @@ ("volume_24h" :> Num(0)) @@ ("funding_rate" :> Num(99))
      @@ ("open_interest" :> Obj("long_open_interest" :> Num(1)))
L4 == ("ticker" :> Str(<<"b", " ">>)) @@ ("mark_price" :> Num(3))
      @@ ("volume_24h" :> Str(<<"2">>)) @@ ("open_interest" :> Num(7))
L5 == EmptyDict
L6 == ("ticker" :> Str(<<"A">>)) @@ ("mark_price" :> Null)
      @@ ("volume_24h" :> Num(1))
L7 == ("ticker" :> Null) @@ ("mark_price" :> Num(1))
      @@ ("volume_24h" :> Num(1))
L8 == ("ticker" :> Str(<<"A">>)) @@ ("mark_price" :> Num(1))
      @@ ("volume_24h" :> Num(1))
      @@ ("open_interest" :> Obj("long_open_interest" :> Str(<<"x">>)))
ListingChoices == {L1, L2, L3, L4, L5, L6, L7, L8}

\* i-th generated listing: distinct volumes, open interests and funding rates
Bulk(i) == Listing(<<"A">>, 1, i + 1, i + 3, OI(2 * i, 1))
BulkListings(n) == [i \in 1..n |-> Bulk(i)]

RECURSIVE SeqsUpTo(_, _)
SeqsUpTo(S, n) ==
    IF n = 0 THEN {<<>>}
    ELSE LET shorter == SeqsUpTo(S, n - 1)
         IN  shorter \cup {Append(q, x) : q \in shorter, x \in S}

ListingSeqs ==
    {p \o b : p \in SeqsUpTo(ListingChoices, MaxListings),
              b \in {<<>>, BulkListings(BulkLen)}}

Globals == ("total_volume_24h" :> Num(1234567))
           @@ ("cumulative_volume" :> Str(<<"8", "9">>))
           @@ ("tvl" :> Num(0)) @@ ("open_interest" :> Num(-5))

Payloads ==
    {Globals @@ ("listings" :> List(ls)) : ls \in ListingSeqs}
    \cup {EmptyDict,
          ("status" :> Str(<<"o", "k">>)),
          ("tvl" :> Num(7)) @@ ("listings" :> List(<<L1, L3>>)),
          ("tvl" :> Null) @@ Globals @@ ("listings" :> List(<<L1>>))}

Invalid == [valid |-> FALSE, value |-> None]
Json(v) == [valid |-> TRUE, value |-> v]
Http(status, body) == [kind |-> "http", status |-> status, body |-> body]
SmallPayload == Globals @@ ("listings" :> List(<<L1, L2>>))

Responses ==
    {[kind |-> "transport", status |-> 0, body |-> Invalid],
     [kind |-> "timeout", status |-> 0, body |-> Invalid],
     Http(404, Invalid), Http(500, Json(SmallPayload)),
     Http(300, Json(SmallPayload)), Http(300, Invalid), Http(200, Invalid)}
    \cup {Http(200, Json(p)) : p \in Payloads}

---------------------------------------------------------------------------
(* The script.                                                             *)

Blank ==
    /\ resp = None /\ fetch_calls = 0 /\ supply_reads = 0 /\ errors = <<>>
    /\ data = None /\ timestamp = "None" /\ supply_map = EmptyDict
    /\ headers = <<>> /\ metrics = <<>> /\ all_data = <<>>
    /\ top_fdv_vol = <<>> /\ top_fdv_oi = <<>> /\ top_funding = <<>>
    /\ df_display = <<>> /\ df_analysis = <<>> /\ outcome = "pending"

\* no st.dataframe is drawn
NoViews ==
    /\ top_fdv_vol' = <<>> /\ top_fdv_oi' = <<>> /\ top_funding' = <<>>
    /\ df_display' = <<>> /\ df_analysis' = <<>>

\* The views drawn from the derived rows.
render_views(df_master, df_metrics) ==
    /\ top_fdv_vol' = head(sort_values(df_metrics, "FDV / Volume 24h", tie_order))
    /\ top_fdv_oi' = head(sort_values(df_metrics, "FDV / Total OI", tie_order))
    /\ top_funding' = head(sort_values(with_abs_funding(df_metrics),
                                       "Abs Funding", tie_order))
    /\ df_display' = sort_values(df_master, "Volume 24h", tie_order)
    /\ df_analysis' = sort_values(volume_positive(df_master), "Volume 24h",
                                  tie_order)

\* main() from "Display Metadata" on, for a truthy `data`.
render(d, smap) ==
    \E tiles \in {render_metrics(d, 1)} :
      /\ metrics' = tiles.tiles
      /\ IF tiles.exc # ""
         THEN /\ headers' = <<"Global Stats">>
              /\ all_data' = <<>> /\ NoViews /\ outcome' = tiles.exc
         ELSE \E listings \in {get(d, "listings", List(<<>>)).v} :
           IF listings = <<>>
           THEN /\ headers' = <<"Global Stats">>
                /\ all_data' = <<>> /\ NoViews /\ outcome' = "no_listings"
           ELSE \E derived \in {derive_all(listings, smap)} :
             /\ all_data' = derived.rows
             /\ IF derived.exc # ""
                THEN /\ headers' = <<"Global Stats">>
                     /\ NoViews /\ outcome' = derived.exc
                ELSE /\ headers' = <<"Global Stats", "Top 10 Metrics",
                                     "Market Listings", "Analysis">>
                     /\ \E df_metrics \in {volume_positive(derived.rows)} :
                          render_views(derived.rows, df_metrics)
                     /\ outcome' = "rendered"

\* One run of main(), top to bottom, against the response r.
main(r) ==
    /\ pc = "running"
    /\ pc' = "idle"
    /\ resp' = r
    /\ \E cleared \in {cache_after_button(button, cache)} :
       \E fetched \in {fetch_api_data(r)} :
       \E smap \in {IF cleared.hit THEN cleared.value ELSE read_supply(source)} :
          /\ cache' = Entry(smap)
          /\ supply_reads' = IF cleared.hit THEN 0 ELSE 1
          /\ supply_map' = smap
          /\ fetch_calls' = fetched.calls
          /\ data' = fetched.data
          /\ timestamp' = fetched.timestamp
          /\ IF not_data(fetched.data)
             THEN /\ errors' = fetched.errors \o <<"Error fetching data">>
                  /\ headers' = <<>> /\ metrics' = <<>> /\ all_data' = <<>>
                  /\ NoViews /\ outcome' = "fetch_error"
             ELSE /\ errors' = fetched.errors
                  /\ render(fetched.data, smap)
    /\ UNCHANGED <<source, tie_order, button, fmt_vars>>

\* The user loads the page again or clicks "Refresh Data": Streamlit reruns
\* the script, and the button reads True in that run only.
Rerun(clicked) ==
    /\ pc = "idle"
    /\ pc' = "running"
    /\ button' = clicked
    /\ resp' = None /\ fetch_calls' = 0 /\ supply_reads' = 0 /\ errors' = <<>>
    /\ data' = None /\ timestamp' = "None" /\ supply_map' = EmptyDict
    /\ headers' = <<>> /\ metrics' = <<>> /\ all_data' = <<>> /\ NoViews
    /\ outcome' = "pending"
    /\ UNCHANGED <<env_vars, fmt_vars>>

\* The supply file is replaced, removed or created on disk.
ChangeSource(s) ==
    /\ s # source
    /\ source' = s
    /\ UNCHANGED <<cache, tie_order, run_vars, fmt_vars>>

\* ttl=3600 passes: the cached entry is dropped.
Expire ==
    /\ cache.hit
    /\ cache' = NoEntry
    /\ UNCHANGED <<source, tie_order, run_vars, fmt_vars>>

Init ==
    /\ source \in Sources
    /\ cache = NoEntry
    /\ tie_order \in TieOrders
    /\ pc = "running" /\ button = FALSE /\ Blank
    /\ fmt_in = Sci(NaN, 0) /\ fmt_out = <<>>

Next ==
    \/ \E r \in Responses : main(r)
    \/ \E clicked \in BOOLEAN : Rerun(clicked)
    \/ \E s \in Sources : ChangeSource(s)
    \/ Expire

Spec == Init /\ [][Next]_vars

---------------------------------------------------------------------------
(* format_fdv on its own: the formatter applied to values of every         *)
(* magnitude.                                                              *)

\* 2.5, 75, 999, 1, 1234.6, 1.25 (an exact tie at one decimal), 999.5; zero,
\* a negative value; each scaled by every power of ten up to 10^MaxExp
Mantissas == {Q(5, 2), Q(75, 1), Q(999, 1), Q(1, 1), Q(6173, 5), Q(5, 4),
              Q(1999, 2), Q(0, 1), Q(-5, 1)}
FmtInputs == {Sci(m, e) : m \in Mantissas, e \in 0..MaxExp} \cup {Sci(NaN, 0)}

Format ==
    /\ fmt_out = <<>>
    /\ fmt_out' = format_fdv(fmt_in)
    /\ UNCHANGED <<fmt_in, env_vars, run_vars>>

Pick(v) ==
    /\ fmt_out # <<>>
    /\ fmt_in' = v
    /\ fmt_out' = <<>>
    /\ UNCHANGED <<env_vars, run_vars>>

InitFmt ==
    /\ source = Missing /\ cache = NoEntry /\ tie_order = "input"
    /\ pc = "idle" /\ button = FALSE /\ Blank
    /\ fmt_in \in FmtInputs /\ fmt_out = <<>>

NextFmt ==
    \/ Format
    \/ \E v \in FmtInputs : Pick(v)

SpecFmt == InitFmt /\ [][NextFmt]_vars

---------------------------------------------------------------------------
(* Properties.                                                             *)

\* a script run has ended and its page is shown
Done == pc = "idle" /\ outcome # "pending"

\* the listings of the payload the run fetched
Listings == IF not_data(data) THEN <<>> ELSE get(data, "listings", List(<<>>)).v

Views == <<[rows |-> top_fdv_vol,  by |-> "FDV / Volume 24h"],
           [rows |-> top_fdv_oi,   by |-> "FDV / Total OI"],
           [rows |-> top_funding,  by |-> "Abs Funding"],
           [rows |-> df_display,   by |-> "Volume 24h"],
           [rows |-> df_analysis,  by |-> "Volume 24h"]>>

NothingRendered ==
    /\ headers = <<>> /\ metrics = <<>>
    /\ \A v \in 1..Len(Views) : Views[v].rows = <<>>

\* positions of the derived rows with volume_24h > 0
PositiveVolume == {i \in 1..Len(all_data) : all_data[i]["Volume 24h"].n > 0}

\* the sort key of a derived row in a view
KeyOf(row, by) == IF by = "Abs Funding"
                  THEN Q(Abs(row["Hourly Funding Rate"].n), row["Hourly Funding Rate"].d)
                  ELSE row[by]

\* a view's row is the derived row of the same index
SameRow(r, orig) == \A c \in DOMAIN orig : r[c] = orig[c]

Positions(view) == {view[p]["index"] + 1 : p \in 1..Len(view)}

NonIncreasing(view, by) ==
    \A p \in 1..(Len(view) - 1) :
        KeyOf(view[p], by).n * KeyOf(view[p + 1], by).d
            >= KeyOf(view[p + 1], by).n * KeyOf(view[p], by).d

\* C1: a listing with missing, null, non-numeric or wrongly shaped fields
\* raises nothing: once the metrics are drawn, a non-empty listings sequence
\* always yields the views and one derived row per listing.
C1_MalformedListingAbsorbed ==
    (Done /\ ~not_data(data) /\ Len(metrics) = Len(MetricKeys)
          /\ Listings # <<>>)
    => (outcome = "rendered" /\ Len(all_data) = Len(Listings))

ClaimedFailure(r) ==
    \/ r.kind \in {"transport", "timeout"}
    \/ r.status \notin 200..299
    \/ ~r.body.valid

ErrorStatusFailure(r) ==
    \/ r.kind \in {"transport", "timeout"}
    \/ r.status \in 400..599
    \/ ~r.body.valid

C3_RefreshReloadsSupply ==
    [][(pc = "running" /\ button /\ pc' = "idle")
        => /\ supply_reads' = 1
           /\ supply_map' = read_supply(source)
           /\ cache' = Entry(read_supply(source))]_vars

C3_Witness ==
    /\ pc = "idle" /\ button /\ supply_reads = 1
    /\ supply_map # EmptyDict /\ supply_map = read_supply(source)
    /\ cache = Entry(supply_map)

\* the raw ticker without its leading and trailing whitespace, in upper case
TrimmedUpper(raw) ==
    LET inner == {i \in 1..Len(raw) : raw[i] \notin Whitespace}
        first == CHOOSE i \in inner : \A j \in inner : i <= j
        last  == CHOOSE i \in inner : \A j \in inner : j <= i
    IN  IF inner = {} THEN <<>>
        ELSE AsList([i \in 1..(last - first + 1) |-> upper_char(raw[first + i - 1])])

LookupKey(i) == TrimmedUpper(get(Listings[i], "ticker", Str(<<>>)).v)

SupplyKnown(i) ==
    LookupKey(i) \in DOMAIN supply_map /\ supply_map[LookupKey(i)].n > 0

\* C4: every derived row looks its supply up under the trimmed, upper-cased
\* ticker; with a supply > 0 there, FDV_Raw = price * supply; with a supply of
\* 0 or no entry, FDV_Raw = 0 and the FDV column reads "-".
C4_FdvFromSupply ==
    \A i \in 1..Len(all_data) :
        /\ all_data[i]["Ticker"] = LookupKey(i)
        /\ IF SupplyKnown(i)
           THEN all_data[i]["FDV_Raw"] =
                    Mul(all_data[i]["Price"], supply_map[LookupKey(i)])
           ELSE /\ all_data[i]["FDV_Raw"] = Zero
                /\ all_data[i]["FDV"] = <<"-">>

C4_Witness ==
    /\ \E i \in 1..Len(all_data) :
          /\ SupplyKnown(i)
          /\ Listings[i]["ticker"].v # LookupKey(i)
          /\ all_data[i]["FDV_Raw"].n > 0
          /\ all_data[i]["FDV"] # <<"-">>
    /\ \E i \in 1..Len(all_data) :
          /\ supply_map # EmptyDict
          /\ LookupKey(i) \notin DOMAIN supply_map
          /\ all_data[i]["FDV"] = <<"-">>

\* the four ratios and their denominators
Denominator(row, k) ==
    CASE k = 1 -> row["Volume 24h"]
      [] k = 2 -> Add(row["Long OI"], row["Short OI"])
      [] k = 3 -> row["Long OI"]
      [] k = 4 -> row["Short OI"]

Ratio(row, k) ==
    CASE k = 1 -> row["FDV / Volume 24h"]
      [] k = 2 -> row["FDV / Total OI"]
      [] k = 3 -> row["FDV / Long OI"]
      [] k = 4 -> row["FDV / Short OI"]

\* C5: in every derived row each ratio is a number; it is 0 when its
\* denominator is <= 0, and times a denominator > 0 it gives FDV_Raw back.
C5_SafeRatios ==
    \A i \in 1..Len(all_data) : \A k \in 1..4 :
        LET den   == Denominator(all_data[i], k)
            ratio == Ratio(all_data[i], k)
        IN  /\ ratio.d # 0
            /\ den.n <= 0 => ratio = Zero
            /\ den.n > 0 => Mul(ratio, den) = all_data[i]["FDV_Raw"]

C5_Witness ==
    \E i \in 1..Len(all_data) :
        /\ all_data[i]["FDV_Raw"].n > 0
        /\ all_data[i]["Short OI"].n < 0
        /\ all_data[i]["FDV / Short OI"] = Zero
        /\ Add(all_data[i]["Long OI"], all_data[i]["Short OI"]) = Zero
        /\ all_data[i]["FDV / Total OI"] = Zero
        /\ all_data[i]["Long OI"].n > 0
        /\ all_data[i]["FDV / Long OI"].n > 0

\* C6: each Top-10 view holds min(10, rows with volume_24h > 0) distinct
\* derived rows, all with volume_24h > 0, in non-increasing order of its key,
\* and none of them has a smaller key than a row with volume_24h > 0 left out.
C6_TopTen ==
    outcome = "rendered" =>
    \A v \in 1..3 :
        LET view == Views[v].rows
            by   == Views[v].by
            in   == Positions(view)
        IN  /\ Len(view) = IF Cardinality(PositiveVolume) < 10
                           THEN Cardinality(PositiveVolume) ELSE 10
            /\ Cardinality(in) = Len(view)
            /\ in \subseteq PositiveVolume
            /\ \A p \in 1..Len(view) :
                  SameRow(view[p], all_data[view[p]["index"] + 1])
            /\ NonIncreasing(view, by)
            /\ \A i \in in : \A j \in PositiveVolume \ in :
                  KeyOf(all_data[i], by).n * KeyOf(all_data[j], by).d
                      >= KeyOf(all_data[j], by).n * KeyOf(all_data[i], by).d

C6_Witness ==
    /\ outcome = "rendered"
    /\ Cardinality(PositiveVolume) > 10
    /\ Len(top_fdv_vol) = 10 /\ Len(top_fdv_oi) = 10 /\ Len(top_funding) = 10
    /\ \E i \in 1..Len(all_data) :
          /\ i \notin PositiveVolume
          /\ Gt(KeyOf(all_data[i], "Abs Funding"),
                KeyOf(top_funding[1], "Abs Funding"))
          /\ Gt(all_data[i]["FDV / Total OI"], top_fdv_oi[1]["FDV / Total OI"])

\* C7: in each of the five views, two rows with equal sort keys stand in the
\* order their listings had in the input.
C7_TiesKeepInputOrder ==
    outcome = "rendered" =>
    \A v \in 1..Len(Views) :
        LET view == Views[v].rows
            by   == Views[v].by
        IN  \A p \in 1..Len(view) : \A q \in (p + 1)..Len(view) :
                KeyOf(view[p], by) = KeyOf(view[q], by)
                    => view[p]["index"] < view[q]["index"]

NumericGlobals(p) ==
    \A k \in 1..Len(MetricKeys) :
        MetricKeys[k] \in DOMAIN p => float(p[MetricKeys[k]]).exc = ""

\* C9: after a successful fetch each of the four metric tiles shows the
\* payload's value, and $0 when the payload lacks the field, also when it
\* lacks all of them and the listings.
C9_AbsentMetricsShownAsZero ==
    (Done /\ resp.kind = "http" /\ resp.status \in 200..299 /\ resp.body.valid
          /\ NumericGlobals(resp.body.value))
    => /\ errors = <<>>
       /\ Len(metrics) = Len(MetricKeys)
       /\ \A k \in 1..Len(MetricKeys) :
             metrics[k] = IF MetricKeys[k] \in DOMAIN resp.body.value
                          THEN format_metric(float(resp.body.value[MetricKeys[k]]).v)
                          ELSE <<"$", "0">>

\* the magnitude class the claim assigns to a positive value
SuffixExp(val) == IF GePow10(val, 12) THEN 12
                  ELSE IF GePow10(val, 9) THEN 9
                  ELSE IF GePow10(val, 6) THEN 6 ELSE 0

SuffixChar(k) == CASE k = 12 -> "T" [] k = 9 -> "B" [] k = 6 -> "M"

\* t tenths is val / 10^k to the nearest tenth
NearestTenth(val, k, t) ==
    LET s == val.e - k + 1
        N == IF s >= 0 THEN val.m.n * Pow10(s) ELSE val.m.n
        D == IF s >= 0 THEN val.m.d ELSE val.m.d * Pow10(-s)
    IN  2 * Abs(N - t * D) <= D

\* C10: format_fdv gives "-" for NaN and for values <= 0; otherwise "$", the
\* value divided by 10^12, 10^9 or 10^6 (the largest it reaches) to one
\* decimal, and the suffix T, B or M; below 10^6 the value itself to one
\* decimal and no suffix.
C10_FormatFdv ==
    fmt_out # <<>> =>
        /\ IF isna(fmt_in.m) \/ fmt_in.m.n <= 0 THEN fmt_out = <<"-">>
           ELSE LET k    == SuffixExp(fmt_in)
                    body == IF k = 0 THEN Tail(fmt_out)
                            ELSE SubSeq(fmt_out, 2, Len(fmt_out) - 1)
                IN  /\ Head(fmt_out) = "$"
                    /\ k > 0 => fmt_out[Len(fmt_out)] = SuffixChar(k)
                    /\ IsDigit(body[Len(body)]) /\ body[Len(body) - 1] = "."
                    /\ \A i \in 1..Len(body) :
                          IsDigit(body[i]) \/ body[i] = "."
                              \/ (k = 0 /\ body[i] = ",")
                    /\ NearestTenth(fmt_in, k, DigitsToInt(SelectSeq(body, IsDigit)))
        /\ fmt_in = Sci(Q(5, 2), 12) => fmt_out = <<"$", "2", ".", "5", "T">>
        /\ fmt_in = Sci(Q(75, 1), 7)
              => fmt_out = <<"$", "7", "5", "0", ".", "0", "M">>
        /\ fmt_in = Sci(Q(999, 1), 0) => fmt_out = <<"$", "9", "9", "9", ".", "0">>
        /\ fmt_in = Sci(Q(0, 1), 0) => fmt_out = <<"-">>
        /\ fmt_in = Sci(Q(-5, 1), 0) => fmt_out = <<"-">>

C10_Witness ==
    /\ fmt_in = Sci(Q(5, 2), 12)
    /\ fmt_out = <<"$", "2", ".", "5", "T">>

===========================================================================
